---------------------------- MODULE Spec2Model ----------------------------
(***************************************************************************)
(* Model of the quantum-computing-implementations circuits:                *)
(*   src/src/circuits/error_correction.py  (bit-flip encoder / decoders)   *)
(*   src/src/circuits/qaoa.py              (QAOA ansatz and expectation)   *)
(* src/src/circuits/qubit_routing.py only forwards its arguments to        *)
(* qiskit's transpile and holds no logic of its own; it has no part here.  *)
(*                                                                         *)
(* The error-correction circuits consist only of X, CX and CCX gates, which *)
(* permute computational-basis states.  A superposition a|0> + b|1> on     *)
(* qubit 0 is therefore followed branch by branch: reg[b] is the basis     *)
(* state that the circuit has made of the input with qubit 0 = b.          *)
(***************************************************************************)
EXTENDS Integers, Sequences, FiniteSets, TLC

VARIABLES
    expt,          \* which circuit is being simulated: "single" or "double"
    phase,         \* "encode", "error", "decode", "done" (or "idle")
    pc,            \* number of gates of the current circuit already applied
    reg,           \* reg[b][q]: value of qubit q in the branch started from b
    errs,          \* the qubits that received an X error
    counts,        \* compute_expectation: the histogram, a sequence of
                   \*   <<bitstring, count>> items in dict iteration order
    graph_edges,   \* the edge list, a sequence of <<i, j, weight>>
    total_shots,   \* local of compute_expectation
    expectation,   \* local of compute_expectation, an exact fraction
    item,          \* number of counts.items() already processed
    outcome,       \* "running", "returned", "ZeroDivisionError" (or "idle")
    edge_lists,    \* create_qaoa_circuit: the edge lists of two calls, the
                   \*   second a reordering of the first
    qc,            \* qc[c]: the circuit of call c, a sequence of instructions
    qpc,           \* the statement both calls execute next
    edge_idx       \* number of edges already processed by the loop

qecVars == <<expt, phase, pc, reg, errs>>

expVars == <<counts, graph_edges, total_shots, expectation, item, outcome>>

qaoaVars == <<edge_lists, qc, qpc, edge_idx>>

vars == <<expt, phase, pc, reg, errs,
          counts, graph_edges, total_shots, expectation, item, outcome,
          edge_lists, qc, qpc, edge_idx>>

Bit == {0, 1}

(* Largest number of simultaneous X errors that the harness injects. *)
MaxFlips == 2

----------------------------------------------------------------------------
(* Gates and their action on a computational-basis state.                  *)

Gate(name, qargs) == [name |-> name, qargs |-> qargs]

Xor(a, b) == (a + b) % 2

(* qc.x / qc.cx / qc.ccx on the basis state r (a function qubit -> bit). *)
ApplyGate(g, r) ==
    CASE g.name = "x" ->
            [r EXCEPT ![g.qargs[1]] = Xor(@, 1)]
      [] g.name = "cx" ->
            [r EXCEPT ![g.qargs[2]] = Xor(@, r[g.qargs[1]])]
      [] g.name = "ccx" ->
            [r EXCEPT ![g.qargs[3]] = Xor(@, r[g.qargs[1]] * r[g.qargs[2]])]

(* encoded_circuit.x(q) for every q of the set qs (X gates commute). *)
RECURSIVE ApplyErrors(_, _)
ApplyErrors(qs, r) ==
    IF qs = {} THEN r
    ELSE LET q == CHOOSE x \in qs : \A y \in qs : x <= y
         IN  ApplyErrors(qs \ {q}, ApplyGate(Gate("x", <<q>>), r))

----------------------------------------------------------------------------
(* The circuits of QuantumErrorCorrection, gate by gate.                   *)

create_encoder ==
    << Gate("cx", <<0, 1>>),
       Gate("cx", <<0, 2>>) >>

create_single_error_decoder_swapped ==
    << Gate("cx", <<0, 1>>),
       Gate("cx", <<0, 2>>),
       Gate("ccx", <<2, 0, 1>>),
       Gate("ccx", <<1, 2, 0>>),
       Gate("ccx", <<0, 1, 2>>) >>

create_single_error_decoder ==
    << Gate("cx", <<0, 1>>),
       Gate("cx", <<0, 2>>),
       Gate("ccx", <<1, 2, 0>>),
       Gate("ccx", <<2, 0, 1>>),
       Gate("ccx", <<0, 1, 2>>) >>

create_double_error_decoder ==
    << Gate("cx", <<0, 5>>),
       Gate("cx", <<1, 5>>),
       Gate("cx", <<1, 6>>),
       Gate("cx", <<2, 6>>),
       Gate("cx", <<2, 7>>),
       Gate("cx", <<3, 7>>),
       Gate("cx", <<3, 8>>),
       Gate("cx", <<4, 8>>),
       Gate("ccx", <<5, 7, 1>>),
       Gate("ccx", <<6, 8, 3>>),
       Gate("ccx", <<5, 6, 0>>),
       Gate("ccx", <<6, 7, 2>>),
       Gate("ccx", <<7, 8, 4>>) >>

SingleQubits == 0..2
DoubleQubits == 0..8
DataQubits   == 0..4

Decoder == IF expt = "single" THEN create_single_error_decoder
           ELSE create_double_error_decoder

(* Qubits on which the harness may place X errors. *)
ErrorSites == IF expt = "single" THEN SingleQubits ELSE DataQubits

----------------------------------------------------------------------------
(* The simulation harness: prepare, encode, inject errors, decode.         *)

(* Single-error experiment: qubit 0 carries the logical bit, qubits 1 and  *)
(* 2 start at 0, and the encoder is still to run.                          *)
InitSingle ==
    /\ expt = "single"
    /\ phase = "encode"
    /\ pc = 0
    /\ reg = [b \in Bit |-> [q \in SingleQubits |-> IF q = 0 THEN b ELSE 0]]
    /\ errs = {}

(* Double-error experiment: the five data qubits hold the logical bit and  *)
(* the four syndrome qubits start at 0; the repository has no 5-qubit      *)
(* encoder, so the experiment starts from the encoded state.               *)
InitDouble ==
    /\ expt = "double"
    /\ phase = "error"
    /\ pc = 0
    /\ reg = [b \in Bit |-> [q \in DoubleQubits |-> IF q \in DataQubits THEN b ELSE 0]]
    /\ errs = {}

QECIdle ==
    /\ expt = "none"
    /\ phase = "idle"
    /\ pc = 0
    /\ reg = <<>>
    /\ errs = {}

ExpIdle ==
    /\ counts = <<>>
    /\ graph_edges = <<>>
    /\ total_shots = 0
    /\ expectation = 0
    /\ item = 0
    /\ outcome = "idle"

QaoaIdle ==
    /\ edge_lists = <<>>
    /\ qc = <<>>
    /\ qpc = "idle"
    /\ edge_idx = 0

InitQEC == (InitSingle \/ InitDouble) /\ ExpIdle /\ QaoaIdle

(* One gate of create_encoder. *)
EncodeStep ==
    /\ phase = "encode"
    /\ pc < Len(create_encoder)
    /\ reg' = [b \in Bit |-> ApplyGate(create_encoder[pc + 1], reg[b])]
    /\ IF pc + 1 = Len(create_encoder)
       THEN phase' = "error" /\ pc' = 0
       ELSE phase' = phase /\ pc' = pc + 1
    /\ UNCHANGED <<expt, errs>>
    /\ UNCHANGED <<expVars, qaoaVars>>

(* X errors on a set of at most MaxFlips qubits (possibly none). *)
InjectError ==
    /\ phase = "error"
    /\ \E qs \in SUBSET ErrorSites :
          /\ Cardinality(qs) <= MaxFlips
          /\ errs' = qs
          /\ reg' = [b \in Bit |-> ApplyErrors(qs, reg[b])]
    /\ phase' = "decode"
    /\ pc' = 0
    /\ UNCHANGED expt
    /\ UNCHANGED <<expVars, qaoaVars>>

(* One gate of the decoder. *)
DecodeStep ==
    /\ phase = "decode"
    /\ pc < Len(Decoder)
    /\ reg' = [b \in Bit |-> ApplyGate(Decoder[pc + 1], reg[b])]
    /\ pc' = pc + 1
    /\ phase' = IF pc + 1 = Len(Decoder) THEN "done" ELSE phase
    /\ UNCHANGED <<expt, errs>>
    /\ UNCHANGED <<expVars, qaoaVars>>

NextQEC == EncodeStep \/ InjectError \/ DecodeStep

SpecQEC == InitQEC /\ [][NextQEC]_vars

----------------------------------------------------------------------------
(* C1: after create_encoder, at most one X error on qubit 0, 1 or 2, and   *)
(* all gates of create_single_error_decoder, qubit 0 holds the logical bit *)
(* b again, for b = 0 and for b = 1.                                       *)
C1_SingleDecoderRestoresQubit0 ==
    (expt = "single" /\ phase = "done" /\ Cardinality(errs) <= 1)
        => \A b \in Bit : reg[b][0] = b

(* A finished single-error run in which qubit 1 was flipped. *)
C1_Witness ==
    /\ expt = "single"
    /\ phase = "done"
    /\ errs = {1}
    /\ \A b \in Bit : reg[b][0] = b

(* C2: from data qubits 0-4 all equal to b and syndrome qubits 5-8 at 0,   *)
(* with no X error or one X error on a data qubit, the gates of            *)
(* create_double_error_decoder leave all five data qubits equal to b.      *)
C2_DoubleDecoderCorrectsOneFlip ==
    (expt = "double" /\ phase = "done" /\ Cardinality(errs) <= 1)
        => \A b \in Bit : \A q \in DataQubits : reg[b][q] = b

(* C3: from data qubits 0-4 all equal to b and syndrome qubits 5-8 at 0,   *)
(* with X errors on two distinct data qubits, the gates of                 *)
(* create_double_error_decoder leave all five data qubits equal to b.      *)
C3_DoubleDecoderCorrectsTwoFlips ==
    (expt = "double" /\ phase = "done" /\ Cardinality(errs) = 2)
        => \A b \in Bit : \A q \in DataQubits : reg[b][q] = b

(* C4: for each fixed error (none, or one X on qubit 0, 1 or 2) between    *)
(* create_encoder and create_single_error_decoder, qubits 1 and 2 end with *)
(* the same values in the branch started from qubit 0 = 0 and the branch   *)
(* started from qubit 0 = 1, so that a superposition prepared on qubit 0   *)
(* is restored there unentangled from qubits 1 and 2.                      *)
C4_SingleDecoderDisentangles ==
    (expt = "single" /\ phase = "done" /\ Cardinality(errs) <= 1)
        => /\ reg[0][1] = reg[1][1]
           /\ reg[0][2] = reg[1][2]

----------------------------------------------------------------------------
(* QAOA.compute_expectation (qaoa.py lines 76-99).                         *)
(*                                                                         *)
(* Counts and weights are integers; the quotient of Python's true division *)
(* is kept as an exact fraction num/den in lowest terms with den > 0.      *)

(* Number of qubits of the QAOA instance, hence the bitstring length. *)
n_qubits == 4

(* Largest count of one bitstring of a generated histogram. *)
MaxCount == 2

(* Generated histograms have 0, 1 or 2 entries; generated edge lists have  *)
(* 0, 1 or 2 edges with weight 1 or 2.                                     *)
HistogramSizes == 0..2
EdgeListSizes == 0..2
Weights == {1, 2}

(* The edge list of the tests: the path 0-1-2-3 with unit weights. *)
test_edges == << <<0, 1, 1>>, <<1, 2, 1>>, <<2, 3, 1>> >>

Bitstrings == [1..n_qubits -> Bit]

SeqsOfSizes(S, sizes) == UNION {[1..k -> S] : k \in sizes}

(* A dict has no repeated key. *)
Histograms ==
    {h \in SeqsOfSizes(Bitstrings \X (0..MaxCount), HistogramSizes) :
        \A a, b \in DOMAIN h : a # b => h[a][1] # h[b][1]}

Edges == {e \in (0..n_qubits - 1) \X (0..n_qubits - 1) \X Weights : e[1] < e[2]}

EdgeLists == SeqsOfSizes(Edges, EdgeListSizes) \cup {test_edges}

Abs(x) == IF x < 0 THEN -x ELSE x

RECURSIVE GCD(_, _)
GCD(a, b) == IF b = 0 THEN a ELSE GCD(b, a % b)

Frac(n, d) ==
    LET g == GCD(Abs(n), Abs(d))
        s == IF d < 0 THEN -1 ELSE 1
    IN  [num |-> s * (n \div g), den |-> s * (d \div g)]

FracAdd(x, y) == Frac(x.num * y.den + y.num * x.den, x.den * y.den)

(* sum(counts.values()) *)
RECURSIVE SumValues(_)
SumValues(h) == IF h = <<>> THEN 0 ELSE h[1][2] + SumValues(Tail(h))

(* The inner loop: cost of one bitstring over the edge list, in list order; *)
(* Python's bitstring[i] is the TLA+ sequence element i + 1.               *)
RECURSIVE Cost(_, _)
Cost(bitstring, es) ==
    IF es = <<>> THEN 0
    ELSE LET i == es[Len(es)][1]
             j == es[Len(es)][2]
             weight == es[Len(es)][3]
             before == Cost(bitstring, SubSeq(es, 1, Len(es) - 1))
         IN  IF bitstring[i + 1] # bitstring[j + 1] THEN before + weight ELSE before

(* cost * count // total_shots: floor division in place of true division. *)
TermFloor(cost, count, total) == Frac((cost * count) \div total, 1)

(* cost * count / total_shots, for total_shots # 0. *)
Term(cost, count, total) == Frac(cost * count, total)

InitExp ==
    /\ counts \in Histograms
    /\ graph_edges \in EdgeLists
    /\ total_shots = 0
    /\ expectation = Frac(0, 1)
    /\ item = 0
    /\ outcome = "called"
    /\ QECIdle
    /\ QaoaIdle

(* Lines 89-90: total_shots = sum(counts.values()); expectation = 0. *)
SumShots ==
    /\ outcome = "called"
    /\ total_shots' = SumValues(counts)
    /\ expectation' = Frac(0, 1)
    /\ outcome' = "running"
    /\ UNCHANGED <<counts, graph_edges, item>>
    /\ UNCHANGED <<qecVars, qaoaVars>>

(* Lines 92-97: one pass of the loop over counts.items(); the division     *)
(* raises ZeroDivisionError when total_shots is 0.                         *)
LoopItem ==
    /\ outcome = "running"
    /\ item < Len(counts)
    /\ LET bitstring == counts[item + 1][1]
           count == counts[item + 1][2]
           cost == Cost(bitstring, graph_edges)
       IN  IF total_shots = 0
           THEN /\ outcome' = "ZeroDivisionError"
                /\ UNCHANGED <<expectation, item>>
           ELSE /\ expectation' = FracAdd(expectation, Term(cost, count, total_shots))
                /\ item' = item + 1
                /\ outcome' = outcome
    /\ UNCHANGED <<counts, graph_edges, total_shots>>
    /\ UNCHANGED <<qecVars, qaoaVars>>

(* Line 99: return expectation. *)
Return ==
    /\ outcome = "running"
    /\ item = Len(counts)
    /\ outcome' = "returned"
    /\ UNCHANGED <<counts, graph_edges, total_shots, expectation, item>>
    /\ UNCHANGED <<qecVars, qaoaVars>>

NextExp == SumShots \/ LoopItem \/ Return

SpecExp == InitExp /\ [][NextExp]_vars

----------------------------------------------------------------------------
(* The cut value of a bitstring: the sum of the weights of the edges whose *)
(* end points carry different bits.                                        *)
RECURSIVE CutOfFirst(_, _)
CutOfFirst(bitstring, k) ==
    IF k = 0 THEN 0
    ELSE LET e == graph_edges[k]
         IN  (IF bitstring[e[1] + 1] # bitstring[e[2] + 1] THEN e[3] ELSE 0)
                + CutOfFirst(bitstring, k - 1)

CutValue(bitstring) == CutOfFirst(bitstring, Len(graph_edges))

(* Sum of cut * count over the first k entries of the histogram. *)
RECURSIVE WeightedCutsOfFirst(_)
WeightedCutsOfFirst(k) ==
    IF k = 0 THEN 0
    ELSE CutValue(counts[k][1]) * counts[k][2] + WeightedCutsOfFirst(k - 1)

WeightedCuts == WeightedCutsOfFirst(Len(counts))

IsConstant(bitstring) == \A p, q \in DOMAIN bitstring : bitstring[p] = bitstring[q]

(* C5: with a positive total, compute_expectation returns                  *)
(* (sum over bitstrings of cut * count) / total; a histogram of constant   *)
(* bitstrings gives 0, and the single bitstring 0101 on the path 0-1-2-3   *)
(* with unit weights gives 3.                                              *)
C5_ExpectationIsWeightedCut ==
    (outcome = "returned" /\ SumValues(counts) > 0) =>
        /\ expectation.den > 0
        /\ expectation.num * SumValues(counts) = expectation.den * WeightedCuts
        /\ (\A k \in DOMAIN counts : IsConstant(counts[k][1]))
              => expectation = Frac(0, 1)
        /\ (/\ Len(counts) = 1
            /\ counts[1][1] = <<0, 1, 0, 1>>
            /\ graph_edges = test_edges)
              => expectation = Frac(3, 1)

(* A call that returned for two bitstrings with different positive cuts    *)
(* and different counts, whose terms do not divide evenly.                 *)
C5_Witness ==
    /\ outcome = "returned"
    /\ Len(counts) = 2
    /\ counts[1][2] = 1
    /\ counts[2][2] = 2
    /\ CutValue(counts[1][1]) = 1
    /\ CutValue(counts[2][1]) = 3
    /\ expectation = Frac(7, 3)

(* C6: a call whose counts sum to 0 (the empty mapping, or only zero       *)
(* counts) fails with a division-by-zero error and returns no value.       *)
C6_ZeroShotsRaises ==
    (outcome = "returned") => total_shots > 0

----------------------------------------------------------------------------
(* QAOA.create_qaoa_circuit (qaoa.py lines 22-57).                         *)
(*                                                                         *)
(* gamma and beta are symbolic: an angle is the pair of integer            *)
(* coefficients [g, b] standing for g * gamma + b * beta.                  *)

(* Largest number of edges of the edge list given to create_qaoa_circuit. *)
MaxQaoaEdges == 2

Angle(g, b) == [g |-> g, b |-> b]
Zero == Angle(0, 0)
AngleAdd(x, y) == Angle(x.g + y.g, x.b + y.b)

Qubits == 0..n_qubits - 1

Instr(name, params, qargs, cargs) ==
    [name |-> name, params |-> params, qargs |-> qargs, cargs |-> cargs]

(* One instruction per qubit 0..n-1, as qc.h(range(n)) broadcasts; a       *)
(* measurement of qubit i writes classical bit i.                          *)
Broadcast(name, params) ==
    [i \in 1..n_qubits |->
        Instr(name, params, <<i - 1>>, IF name = "measure" THEN <<i - 1>> ELSE <<>>)]

(* The cost layer with the entangler written as cx(k, l). *)
CostGatesCx(edge, gamma) ==
    LET k == edge[1]
        l == edge[2]
        weight == edge[3]
    IN  << Instr("cx", <<>>, <<k, l>>, <<>>),
           Instr("u", <<Zero, Zero, Angle(gamma * weight, 0)>>, <<k>>, <<>>),
           Instr("u", <<Zero, Zero, Angle(gamma * weight, 0)>>, <<l>>, <<>>) >>

(* The gates of one edge with the two single-qubit phases in the other    *)
(* order: first on l, then on k.                                           *)
CostGatesTargetFirst(edge, gamma) ==
    LET k == edge[1]
        l == edge[2]
        weight == edge[3]
    IN  << Instr("cu", <<Zero, Zero, Angle(-2 * gamma * weight, 0), Zero>>, <<k, l>>, <<>>),
           Instr("u", <<Zero, Zero, Angle(gamma * weight, 0)>>, <<l>>, <<>>),
           Instr("u", <<Zero, Zero, Angle(gamma * weight, 0)>>, <<k>>, <<>>) >>

(* Lines 45-48: the three gates of one edge; gamma is the gamma            *)
(* coefficient of the argument named gamma.                                *)
CostGates(edge, gamma) ==
    LET k == edge[1]
        l == edge[2]
        weight == edge[3]
    IN  << Instr("cu", <<Zero, Zero, Angle(-2 * gamma * weight, 0), Zero>>, <<k, l>>, <<>>),
           Instr("u", <<Zero, Zero, Angle(gamma * weight, 0)>>, <<k>>, <<>>),
           Instr("u", <<Zero, Zero, Angle(gamma * weight, 0)>>, <<l>>, <<>>) >>

Barrier == Instr("barrier", <<>>, [i \in 1..n_qubits |-> i - 1], <<>>)

Bijections(n) == {f \in [1..n -> 1..n] : \A a, b \in 1..n : a # b => f[a] # f[b]}

Reorderings(s) == {[i \in 1..Len(s) |-> s[f[i]]] : f \in Bijections(Len(s))}

(* cu needs two different qubits; edges are drawn as (k, l, w) with k < l. *)
QaoaEdges == {e \in Qubits \X Qubits \X Weights : e[1] < e[2]}

QaoaEdgeLists == UNION {[1..k -> QaoaEdges] : k \in 0..MaxQaoaEdges}

Calls == {1, 2}

InitQaoa ==
    /\ \E es \in QaoaEdgeLists : \E rs \in Reorderings(es) : edge_lists = <<es, rs>>
    /\ qc = [c \in Calls |-> <<>>]
    /\ qpc = "h"
    /\ edge_idx = 0
    /\ QECIdle
    /\ ExpIdle

(* Line 40: qc.h(range(self.n_qubits)). *)
AppendHadamards ==
    /\ qpc = "h"
    /\ qc' = [c \in Calls |->
                qc[c] \o Broadcast("h", <<>>)]
    /\ qpc' = "barrier1"
    /\ UNCHANGED <<edge_lists, edge_idx>>
    /\ UNCHANGED <<qecVars, expVars>>

(* Line 41: qc.barrier(). *)
FirstBarrier ==
    /\ qpc = "barrier1"
    /\ qc' = [c \in Calls |-> Append(qc[c], Barrier)]
    /\ qpc' = "edges"
    /\ UNCHANGED <<edge_lists, edge_idx>>
    /\ UNCHANGED <<qecVars, expVars>>

(* Lines 44-48: one pass of the loop over graph_edges. *)
AppendEdge ==
    /\ qpc = "edges"
    /\ edge_idx < Len(edge_lists[1])
    /\ qc' = [c \in Calls |-> qc[c] \o CostGates(edge_lists[c][edge_idx + 1], 1)]
    /\ edge_idx' = edge_idx + 1
    /\ UNCHANGED <<edge_lists, qpc>>
    /\ UNCHANGED <<qecVars, expVars>>

(* Line 51: qc.barrier(), once the loop has ended. *)
SecondBarrier ==
    /\ qpc = "edges"
    /\ edge_idx = Len(edge_lists[1])
    /\ qc' = [c \in Calls |-> Append(qc[c], Barrier)]
    /\ qpc' = "rx"
    /\ UNCHANGED <<edge_lists, edge_idx>>
    /\ UNCHANGED <<qecVars, expVars>>

(* Line 52: qc.rx(2*beta, range(self.n_qubits)). *)
AppendMixer ==
    /\ qpc = "rx"
    /\ qc' = [c \in Calls |->
                qc[c] \o Broadcast("rx", <<Angle(0, 2)>>)]
    /\ qpc' = "measure"
    /\ UNCHANGED <<edge_lists, edge_idx>>
    /\ UNCHANGED <<qecVars, expVars>>

(* Lines 55-57: qc.measure(range(n), range(n)); return qc. *)
AppendMeasure ==
    /\ qpc = "measure"
    /\ qc' = [c \in Calls |->
                qc[c] \o Broadcast("measure", <<>>)]
    /\ qpc' = "done"
    /\ UNCHANGED <<edge_lists, edge_idx>>
    /\ UNCHANGED <<qecVars, expVars>>

NextQaoa ==
    \/ AppendHadamards
    \/ FirstBarrier
    \/ AppendEdge
    \/ SecondBarrier
    \/ AppendMixer
    \/ AppendMeasure

SpecQaoa == InitQaoa /\ [][NextQaoa]_vars

----------------------------------------------------------------------------
(* The action of the gates of the cost layer on a computational-basis      *)
(* state: st.bits is the basis state, st.phase the phase collected so far. *)
(*   u(theta=0, phi, lam)      = diag(1, e^{i(phi+lam)})                   *)
(*   cu(theta=0, phi, lam, gm) = |0><0| (x) I                              *)
(*                             + |1><1| (x) e^{i gm} diag(1, e^{i(phi+lam)}) *)
(*   cx                        flips the target when the control is 1      *)
Evolve(g, st) ==
    CASE g.name = "u" /\ g.params[1] = Zero ->
            IF st.bits[g.qargs[1]] = 1
            THEN [st EXCEPT !.phase = AngleAdd(@, AngleAdd(g.params[2], g.params[3]))]
            ELSE st
      [] g.name = "cu" /\ g.params[1] = Zero ->
            IF st.bits[g.qargs[1]] = 1
            THEN IF st.bits[g.qargs[2]] = 1
                 THEN [st EXCEPT !.phase =
                          AngleAdd(@, AngleAdd(g.params[4],
                                               AngleAdd(g.params[2], g.params[3])))]
                 ELSE [st EXCEPT !.phase = AngleAdd(@, g.params[4])]
            ELSE st
      [] g.name \in {"x", "cx", "ccx"} ->
            [st EXCEPT !.bits = ApplyGate(g, st.bits)]

(* The state after the first k gates, applied in circuit order. *)
RECURSIVE RunFirst(_, _, _)
RunFirst(gates, k, st) ==
    IF k = 0 THEN st ELSE Evolve(gates[k], RunFirst(gates, k - 1, st))

Run(gates, st) == RunFirst(gates, Len(gates), st)

BarrierPositions(c) == {i \in DOMAIN c : c[i].name = "barrier"}

Min(S) == CHOOSE x \in S : \A y \in S : x <= y
Max(S) == CHOOSE x \in S : \A y \in S : x >= y

(* The gates between the two barriers, and the instructions around them. *)
CostLayer(c) == SubSeq(c, Min(BarrierPositions(c)) + 1, Max(BarrierPositions(c)) - 1)
BeforeCostLayer(c) == SubSeq(c, 1, Min(BarrierPositions(c)))
AfterCostLayer(c) == SubSeq(c, Max(BarrierPositions(c)), Len(c))

BasisStates == [Qubits -> Bit]

(* C10: for two edge lists that are reorderings of each other, the cost    *)
(* layers of the two circuits map every computational-basis state to the   *)
(* same basis state with the same phase, and the circuits agree outside    *)
(* the cost layer; hence they have the same measurement distribution.      *)
C10_CostLayerOrderInvariant ==
    (qpc = "done") =>
        /\ BeforeCostLayer(qc[1]) = BeforeCostLayer(qc[2])
        /\ AfterCostLayer(qc[1]) = AfterCostLayer(qc[2])
        /\ LET layer1 == CostLayer(qc[1])
               layer2 == CostLayer(qc[2])
           IN  \A x \in BasisStates :
                  Run(layer1, [bits |-> x, phase |-> Zero])
                    = Run(layer2, [bits |-> x, phase |-> Zero])

(* Two finished circuits whose edge lists share a qubit, come in different *)
(* orders, and whose cost layers give some basis state a non-zero phase.   *)
C10_Witness ==
    /\ qpc = "done"
    /\ edge_lists[1] = << <<0, 1, 1>>, <<1, 2, 2>> >>
    /\ edge_lists[2] = << <<1, 2, 2>>, <<0, 1, 1>> >>
    /\ qc[1] # qc[2]
    /\ Run(CostLayer(qc[1]), [bits |-> [q \in Qubits |-> IF q = 1 THEN 1 ELSE 0],
                              phase |-> Zero]).phase = Angle(3, 0)

----------------------------------------------------------------------------
(* The 3-bit input of the decoder in the branch started from b: the        *)
(* encoder's output with the X errors applied.                             *)
RECURSIVE ApplyFirst(_, _, _)
ApplyFirst(gates, k, r) ==
    IF k = 0 THEN r ELSE ApplyGate(gates[k], ApplyFirst(gates, k - 1, r))

DecoderInput(b) ==
    ApplyErrors(errs,
        ApplyFirst(create_encoder, Len(create_encoder),
                   [q \in SingleQubits |-> IF q = 0 THEN b ELSE 0]))

(* Both qubits other than t hold, in the input r, the value opposite to    *)
(* the value of t.                                                         *)
OutvotedIn(r, t) == \A q \in SingleQubits \ {t} : r[q] # r[t]

(* C12: each of the three CCX gates of create_single_error_decoder flips   *)
(* its target only when, in the decoder's input, the other two qubits both *)
(* hold the value opposite to the target's (a majority vote).              *)
C12_CcxFlipsOnlyWhenOutvoted ==
    [][(expt = "single" /\ phase = "decode" /\ Decoder[pc + 1].name = "ccx") =>
          \A b \in Bit :
             LET t == Decoder[pc + 1].qargs[3]
             IN  reg'[b][t] # reg[b][t] => OutvotedIn(DecoderInput(b), t)]_vars

----------------------------------------------------------------------------
(* The operations of circuit c, built from the edge list es, are in the    *)
(* documented order: position by position.                                 *)
InDocumentedOrder(c, es) ==
    LET n == n_qubits
        m == Len(es)
        second == n + 3 * m + 2
    IN  /\ Len(c) = 3 * n + 3 * m + 2
        /\ \A i \in 1..n :
              c[i] = Instr("h", <<>>, <<i - 1>>, <<>>)
        /\ c[n + 1].name = "barrier"
        /\ \A e \in 1..m :
              LET at == n + 1 + 3 * (e - 1)
                  k == es[e][1]
                  l == es[e][2]
                  w == es[e][3]
              IN  /\ c[at + 1].name = "cu"
                  /\ c[at + 1].qargs = <<k, l>>
                  /\ c[at + 1].params = <<Zero, Zero, Angle(-2 * w, 0), Zero>>
                  /\ c[at + 2].name = "u"
                  /\ c[at + 2].qargs = <<k>>
                  /\ c[at + 2].params = <<Zero, Zero, Angle(w, 0)>>
                  /\ c[at + 3].name = "u"
                  /\ c[at + 3].qargs = <<l>>
                  /\ c[at + 3].params = <<Zero, Zero, Angle(w, 0)>>
        /\ c[second].name = "barrier"
        /\ \A i \in 1..n :
              /\ c[second + i] = Instr("rx", <<Angle(0, 2)>>, <<i - 1>>, <<>>)
              /\ c[second + n + i] = Instr("measure", <<>>, <<i - 1>>, <<i - 1>>)
        /\ \A i \in 1..second : \A a \in DOMAIN c[i].params : c[i].params[a].b = 0
        /\ \A i \in second..Len(c) : \A a \in DOMAIN c[i].params : c[i].params[a].g = 0
        /\ Cardinality({i \in DOMAIN c : c[i].name # "barrier"}) = 3 * n + 3 * m

=============================================================================
